---- MODULE Spec2Model ----
(***************************************************************************)
(* Chapter locking and version allocation of the bid-writing backend.      *)
(*                                                                         *)
(* Every HTTP request runs in its own database session (db/database.py,    *)
(* get_db): the handler reads rows, changes attributes of the loaded ORM   *)
(* objects, flushes, and the session commits when the handler returns or   *)
(* rolls back when it raises.  The store is PostgreSQL at its default      *)
(* isolation level (READ COMMITTED): a read sees the committed rows, a     *)
(* flush sends an UPDATE that names only the columns whose attribute       *)
(* differs from the loaded value, an UPDATE waits for the row lock of an   *)
(* uncommitted writer and then applies to the newest committed row, and    *)
(* SELECT ... FOR UPDATE holds the project row until the transaction ends. *)
(* Requests of different users interleave at these database round trips.   *)
(***************************************************************************)
EXTENDS Integers, Sequences, FiniteSets, TLC

VARIABLES
    now,              \* wall clock, in minutes
    project_members,  \* project_members table: project -> user -> role
    chapters,         \* committed chapters rows
    versions,         \* committed project_versions rows
    committed_calls,  \* history: create_version calls committed, per project
    req               \* the request in progress in each database session

vars == <<now, project_members, chapters, versions, committed_calls, req>>

(***************************************************************************)
(* Program constants and model bounds                                      *)
(***************************************************************************)
LOCK_TIMEOUT_MINUTES == 30

\* the clock advances in steps of TickMinutes up to MaxTime
TickMinutes == 15
MaxTime == 45
\* at most MaxVersions version rows are ever requested
MaxVersions == 2
\* no rollback is requested once MaxRollbacks rollback versions or
\* requests exist
MaxRollbacks == 1

Null == "null"

Users == {"alice", "bob"}
Projects == {"P"}
Chapters == {"c1"}
\* a second project and its chapter
OtherProjects == {"Q"}
OtherChapters == {"q1"}
\* the chapter a later outline generation creates
GeneratedChapters == {"c2"}
Titles == {"T", "U"}
MissingChapter == "c0"
Contents == {"draft A", "draft B"}

\* models/user.py UserRole, models/project.py ProjectMemberRole,
\* models/chapter.py ChapterStatus, models/version.py ChangeType
UserRole == {"admin", "editor", "reviewer"}
ProjectMemberRole == {"owner", "editor", "reviewer"}
ChapterStatus == {"pending", "generated", "reviewing", "finalized"}
ChangeType == {"ai_generate", "manual_edit", "proofread", "rollback"}

\* the global role of each account and the creator of the project
Admins == {"root"}
Accounts == Users \cup Admins
GlobalRole == [u \in Accounts |-> IF u \in Admins THEN "admin" ELSE "editor"]
creator_id == [p \in Projects \cup OtherProjects |-> "alice"]
ChapterProject ==
    [c \in Chapters \cup GeneratedChapters \cup OtherChapters |->
        IF c \in OtherChapters THEN "Q" ELSE "P"]

Columns ==
    {"title", "content", "status", "locked_by", "locked_at",
     "chapter_number", "parent_id", "order_index"}

NewChapter ==
    [title |-> "T", content |-> Null, status |-> "pending",
     locked_by |-> Null, locked_at |-> <<>>,
     chapter_number |-> "1", parent_id |-> Null, order_index |-> 0]

(***************************************************************************)
(* Pure helpers                                                            *)
(***************************************************************************)
\* auth/dependencies.py require_role: admin always passes
require_role(u, required) ==
    GlobalRole[u] = "admin" \/ GlobalRole[u] \in required

require_editor(u) == require_role(u, {"editor", "admin"})

\* a comparison the wrong way round: a lock counts as expired while it is live
is_lock_expired_reversed(ch, t) ==
    IF ch.locked_at = <<>> THEN TRUE
    ELSE t <= ch.locked_at[1] + LOCK_TIMEOUT_MINUTES

\* the timeout counted twice: a lock outlives LOCK_TIMEOUT_MINUTES
is_lock_expired_late(ch, t) ==
    IF ch.locked_at = <<>> THEN TRUE
    ELSE t > ch.locked_at[1] + LOCK_TIMEOUT_MINUTES + LOCK_TIMEOUT_MINUTES

\* variant: the lock expires at the timeout, not after it
is_lock_expired_at_timeout(ch, t) ==
    IF ch.locked_at = <<>> THEN TRUE
    ELSE t >= ch.locked_at[1] + LOCK_TIMEOUT_MINUTES

\* routers/chapters.py _is_lock_expired: no timestamp counts as expired,
\* otherwise strictly later than locked_at + 30 minutes
is_lock_expired(ch, t) ==
    IF ch.locked_at = <<>> THEN TRUE
    ELSE t > ch.locked_at[1] + LOCK_TIMEOUT_MINUTES

\* variant: a user who is not a member counts as an editor of the project
verify_project_member_open(p, u) ==
    IF project_members[p][u] = Null THEN "editor" ELSE project_members[p][u]

\* routers/chapters.py _verify_project_member
verify_project_member(p, u) == project_members[p][u]

\* variant: an owner or editor may send a pending chapter to review
STATUS_TRANSITIONS_skip(from, to) ==
    IF from = "pending" /\ to \in {"generated", "reviewing"}
    THEN {"owner", "editor"}
    ELSE IF from = "generated" /\ to = "reviewing" THEN {"owner", "editor"}
    ELSE IF from = "reviewing" /\ to = "finalized" THEN {"owner", "reviewer"}
    ELSE IF from = "reviewing" /\ to = "generated" THEN {"owner", "reviewer"}
    ELSE {}

\* routers/chapters.py STATUS_TRANSITIONS: the roles allowed on each edge
STATUS_TRANSITIONS(from, to) ==
    IF from = "pending" /\ to = "generated" THEN {"owner", "editor"}
    ELSE IF from = "generated" /\ to = "reviewing" THEN {"owner", "editor"}
    ELSE IF from = "reviewing" /\ to = "finalized" THEN {"owner", "reviewer"}
    ELSE IF from = "reviewing" /\ to = "generated" THEN {"owner", "reviewer"}
    ELSE {}

\* routers/chapters.py _validate_status_transition
validate_status_transition(current_status, target_status, project_role, user_global_role) ==
    IF user_global_role = "admin" THEN TRUE
    ELSE project_role \in STATUS_TRANSITIONS(current_status, target_status)

\* routers/chapters.py _check_edit_permission: can_edit
check_edit_permission(ch, role, u, t) ==
    IF role = Null THEN FALSE
    ELSE IF role = "reviewer" THEN FALSE
    ELSE IF ch.locked_by # Null /\ ~is_lock_expired(ch, t)
         THEN ch.locked_by = u
    ELSE TRUE

\* lock_chapter: the caller becomes the holder
acquire_lock(ch, u, t) == [ch EXCEPT !.locked_by = u, !.locked_at = <<t>>]

\* lock_chapter: the holder calls again, only the timestamp is refreshed
refresh_lock(ch, t) == [ch EXCEPT !.locked_at = <<t>>]

\* variant: lazy expiry that forgets the timestamp
release_lock_holder_only(ch) == [ch EXCEPT !.locked_by = Null]

\* unlock_chapter, get_chapter: both lock fields are cleared
release_lock(ch) == [ch EXCEPT !.locked_by = Null, !.locked_at = <<>>]

\* every member who may edit may unlock
can_unlock_editors(locked_by, u, role) == role \in {"owner", "editor"}

\* the holder is forgotten: only the project owner may unlock
can_unlock_owner_only(locked_by, u, role) == role = "owner"

\* unlock_chapter: is_locker or is_owner
can_unlock(locked_by, u, role) == locked_by = u \/ role = "owner"

\* the columns an ORM flush writes for a loaded chapter: those whose
\* attribute differs from the value that was loaded; a timestamp taken from
\* the clock (stamped) is a new value even within the same minute
Dirty(r, c) ==
    {f \in Columns : r.obj[c][f] # r.snap[c][f]}
    \cup (IF r.stamped THEN {"locked_at"} ELSE {})

\* the committed row after the UPDATE of request r has been applied to it
Flushed(row, r, c) ==
    [f \in Columns |-> IF f \in Dirty(r, c) THEN r.obj[c][f] ELSE row[f]]

\* services/version_service.py create_version: the maximum version number
\* of the project, 0 when it has no version
MaxVersion(p) ==
    LET nums == {v.version_number : v \in {w \in versions : w.project_id = p}}
    IN IF nums = {} THEN 0 ELSE CHOOSE n \in nums : \A m \in nums : m <= n

\* a number is skipped
NextVersionNumber_skip(max_version) == max_version + 2

\* services/version_service.py create_version: next_version = max + 1
NextVersionNumber(max_version) == max_version + 1

\* str(uuid) and datetime.isoformat() as responses and payloads carry
\* them, and uuid.UUID(text) back; the empty tuple stands for None and for
\* the empty string
str(x) == <<"str", x>>
isoformat(t) == <<"iso", t>>
UUID(text) == text[2]

\* the chapters of project p among rows, ORDER BY order_index
RECURSIVE by_order_index(_, _)
by_order_index(rows, ids) ==
    IF ids = {} THEN <<>>
    ELSE LET c == CHOOSE c \in ids :
                    \A d \in ids : rows[c].order_index <= rows[d].order_index
         IN <<c>> \o by_order_index(rows, ids \ {c})

\* services/version_service.py create_project_snapshot: the payload
ProjectSnapshot(rows, p) ==
    LET ids == by_order_index(rows, {d \in DOMAIN rows : ChapterProject[d] = p})
    IN [chapters |->
          [i \in DOMAIN ids |->
              [id |-> str(ids[i]),
               chapter_number |-> rows[ids[i]].chapter_number,
               title |-> rows[ids[i]].title,
               content |-> rows[ids[i]].content,
               status |-> rows[ids[i]].status,
               parent_id |-> rows[ids[i]].parent_id,
               order_index |-> rows[ids[i]].order_index]]]

\* dict.get(key): None when the key is absent
get(d, key) == IF key \in DOMAIN d THEN d[key] ELSE Null

\* _compute_diff: data.get("chapters", [])
chapters_of(data) == IF "chapters" \in DOMAIN data THEN data.chapters ELSE <<>>

\* _compute_diff chapters_by_key: ch.get("id") or ch.get("chapter_number");
\* every payload entry the program writes has both keys, and str() of a
\* string is that string
chapter_key(ch) ==
    IF get(ch, "id") # Null THEN ch.id ELSE get(ch, "chapter_number")

\* _compute_diff chapters_by_key: a later entry replaces an earlier one
\* with the same key
chapters_by_key(list) ==
    [k \in {chapter_key(list[i]) : i \in DOMAIN list} |->
        list[CHOOSE i \in DOMAIN list :
                /\ chapter_key(list[i]) = k
                /\ \A j \in DOMAIN list : chapter_key(list[j]) = k => j <= i]]

\* variant: every chapter present on both sides counts as modified
differs_always(ch1, ch2) == TRUE

\* variant: a change of the title alone is not a modification
differs_content_only(ch1, ch2) == get(ch1, "content") # get(ch2, "content")

\* _compute_diff: content1 != content2 or title1 != title2
differs(ch1, ch2) ==
    get(ch1, "content") # get(ch2, "content")
    \/ get(ch1, "title") # get(ch2, "title")

\* variant: a chapter missing on either side is reported as deleted
one_sided_deleted(in1, in2) == "deleted"

\* _compute_diff: the branch taken for a key present on one side only
one_sided(in1, in2) == IF in1 /\ ~in2 THEN "deleted" ELSE "added"

\* services/version_service.py _compute_diff; changes is the list of the
\* change entries, built in the iteration order of a set
_compute_diff(data1, data2) ==
    LET ch_dict1 == chapters_by_key(chapters_of(data1))
        ch_dict2 == chapters_by_key(chapters_of(data2))
        all_keys == DOMAIN ch_dict1 \cup DOMAIN ch_dict2
        entry(key) ==
            LET in1 == key \in DOMAIN ch_dict1
                in2 == key \in DOMAIN ch_dict2
            IN IF in1 /\ in2
               THEN LET content1 == get(ch_dict1[key], "content")
                        content2 == get(ch_dict2[key], "content")
                        title1 == get(ch_dict1[key], "title")
                        title2 == get(ch_dict2[key], "title")
                    IN [type |-> "modified", chapter_id |-> key,
                        title |-> title2,
                        old_title |-> IF title1 # title2 THEN title1 ELSE Null,
                        new_title |-> IF title1 # title2 THEN title2 ELSE Null,
                        old_content |-> content1,
                        new_content |-> content2,
                        content_changed |-> content1 # content2,
                        title_changed |-> title1 # title2]
               ELSE LET ch == IF in1 THEN ch_dict1[key] ELSE ch_dict2[key]
                        type == one_sided(in1, in2)
                    IN [type |-> type, chapter_id |-> key,
                        title |-> get(ch, "title"),
                        old_content |-> IF type = "deleted"
                                        THEN get(ch, "content") ELSE Null,
                        new_content |-> IF type = "added"
                                        THEN get(ch, "content") ELSE Null]
        changes ==
            {entry(key) : key \in
                {k \in all_keys :
                    (k \in DOMAIN ch_dict1 /\ k \in DOMAIN ch_dict2)
                        => differs(ch_dict1[k], ch_dict2[k])}}
        count(type) == Cardinality({c \in changes : c.type = type})
    IN [total_changes |-> Cardinality(changes),
        added |-> count("added"), deleted |-> count("deleted"),
        modified |-> count("modified"), changes |-> changes]

(***************************************************************************)
(* Requests                                                                *)
(***************************************************************************)
\* database sessions, one per request in progress
Sessions == {"s1", "s2", "s3"}

NoRows == [c \in Chapters |-> NewChapter]

\* snap holds the rows as the session loaded them, obj the attributes of
\* the loaded objects, stamped tells that locked_at was set from the clock,
\* staged is the version row the session has inserted
Idle ==
    [op |-> "none", pc |-> "idle", user |-> "none", chapter |-> "none",
     project |-> "none", arg |-> "none",
     snap |-> NoRows, obj |-> NoRows,
     stamped |-> FALSE, staged |-> <<>>, result |-> "none", reply |-> <<>>,
     before |-> <<>>]

InFlight == {"loaded", "flushed", "presnap", "staged"}

\* a request that has sent its chapter UPDATE and not yet committed holds
\* the row lock of that chapter
RowLockFree(c, s) ==
    \A t \in Sessions \ {s} :
        /\ ~(req[t].pc \in {"flushed", "staged"} /\ req[t].chapter = c)
        /\ ~(/\ req[t].pc = "staged" /\ req[t].op = "rollback"
             /\ c \in DOMAIN req[t].obj
             /\ Dirty(req[t], c) # {})
        /\ ~(/\ req[t].pc = "staged" /\ req[t].op = "outline"
             /\ c \in DOMAIN req[t].snap)

\* SELECT ... FOR UPDATE on the project row, held until commit; the
\* generation handlers of routers/outline.py insert without it
ProjectLockFree(p, s) ==
    \A t \in Sessions \ {s} :
        ~(/\ req[t].pc \in {"staged", "presnap"} /\ req[t].project = p
          /\ req[t].op \notin {"outline", "generate"})

VersionsRequested ==
    Cardinality(versions)
    + Cardinality({t \in Sessions : req[t].pc \in InFlight
                                    /\ req[t].op \in {"content", "snapshot",
                                                      "generate", "outline"}})

\* ChapterContentResponse: the lock fields of the response of get_chapter
ChapterContentResponse(ch, lock_expired) ==
    [locked_by |-> IF ch.locked_by # Null THEN str(ch.locked_by) ELSE <<>>,
     locked_at |-> IF ch.locked_at # <<>> THEN isoformat(ch.locked_at[1])
                   ELSE <<>>,
     is_locked |-> ch.locked_by # Null,
     lock_expired |-> lock_expired]

\* variant: the 409 without the lock timestamp
ConflictHeaders_no_time(ch) ==
    [X_Locked_By |-> str(ch.locked_by), X_Locked_At |-> <<>>]

\* the headers of the 409 of lock_chapter
ConflictHeaders(ch) ==
    [X_Locked_By |-> str(ch.locked_by),
     X_Locked_At |-> IF ch.locked_at # <<>> THEN isoformat(ch.locked_at[1])
                     ELSE <<>>]

\* the response: what the caller is told
Done(r, res) ==
    [Idle EXCEPT !.pc = "done", !.op = r.op, !.user = r.user, !.result = res,
                 !.reply = r.reply]

Init ==
    /\ now = 0
    /\ project_members =
         [p \in Projects |-> [u \in Users |->
             IF u = creator_id[p] THEN "owner" ELSE "editor"]]
    /\ chapters = [c \in Chapters |-> NewChapter]
    /\ versions = {}
    /\ committed_calls = [p \in Projects |-> 0]
    /\ req = [s \in Sessions |-> Idle]

\* time passes
Tick ==
    /\ now + TickMinutes <= MaxTime
    /\ now' = now + TickMinutes
    /\ UNCHANGED <<project_members, chapters, versions, committed_calls, req>>

\* A chapter request of user u enters its handler in session s: the handler
\* loads the chapter row (_get_chapter_with_lock_info).
Load(s, u, op, c, arg) ==
    /\ req[s].pc \in {"idle", "done"}
    /\ LET p == IF c \in DOMAIN chapters THEN ChapterProject[c] ELSE "none"
           rows == [d \in {c} \cap DOMAIN chapters |-> chapters[d]]
       IN req' = [req EXCEPT ![s] =
            [Idle EXCEPT !.op = op, !.pc = "loaded", !.user = u,
                         !.chapter = c, !.project = p, !.arg = arg,
                         !.snap = rows, !.obj = rows]]
    /\ UNCHANGED <<now, project_members, chapters, versions, committed_calls>>

\* a request arrives while the project has room for another version
Begin(s, u, op, c, arg) ==
    /\ op \in {"content", "generate"} => VersionsRequested < MaxVersions
    /\ Load(s, u, op, c, arg)

\* the session of a single-statement handler flushes and commits: the UPDATE
\* is applied to the committed row once no uncommitted writer holds the row
FlushCommit(s, r, res) ==
    /\ Dirty(r, r.chapter) # {} => RowLockFree(r.chapter, s)
    /\ chapters' = IF Dirty(r, r.chapter) = {} THEN chapters
                   ELSE [chapters EXCEPT ![r.chapter] = Flushed(@, r, r.chapter)]
    /\ req' = [req EXCEPT ![s] = Done(r, res)]

\* the handler raises HTTPException and the session rolls back
Reject(s, res) ==
    /\ req' = [req EXCEPT ![s] = Done(req[s], res)]
    /\ UNCHANGED chapters

\* the handler raises HTTPException with headers
RejectWith(s, r, res) ==
    /\ req' = [req EXCEPT ![s] = Done(r, res)]
    /\ UNCHANGED chapters

\* POST /api/chapters/{id}/lock
lock_chapter(s) ==
    LET r == req[s]
        c == r.chapter
        u == r.user
        role == IF c \in DOMAIN r.snap
                THEN verify_project_member(ChapterProject[c], u) ELSE Null
    IN
    /\ r.pc = "loaded" /\ r.op = "lock"
    /\ IF ~require_editor(u) THEN Reject(s, "Forbidden")
       ELSE IF c \notin DOMAIN r.snap THEN Reject(s, "NotFound")
       ELSE IF role = Null THEN Reject(s, "Forbidden")
       ELSE IF role = "reviewer" THEN Reject(s, "Forbidden")
       ELSE IF r.snap[c].locked_by # Null /\ ~is_lock_expired(r.snap[c], now)
       THEN IF r.snap[c].locked_by # u
            THEN RejectWith(s, [r EXCEPT !.reply = ConflictHeaders(r.obj[c])],
                            "Conflict")
            ELSE FlushCommit(s, [r EXCEPT !.obj[c] = refresh_lock(@, now),
                                          !.stamped = TRUE],
                             "refreshed")
       ELSE FlushCommit(s, [r EXCEPT !.obj[c] = acquire_lock(@, u, now),
                                     !.stamped = TRUE],
                        "locked")
    /\ UNCHANGED <<now, project_members, versions, committed_calls>>

\* POST /api/chapters/{id}/unlock
unlock_chapter(s) ==
    LET r == req[s]
        c == r.chapter
        u == r.user
        role == IF c \in DOMAIN r.snap
                THEN verify_project_member(ChapterProject[c], u) ELSE Null
    IN
    /\ r.pc = "loaded" /\ r.op = "unlock"
    /\ IF ~require_editor(u) THEN Reject(s, "Forbidden")
       ELSE IF c \notin DOMAIN r.snap THEN Reject(s, "NotFound")
       ELSE IF role = Null THEN Reject(s, "Forbidden")
       ELSE IF r.snap[c].locked_by = Null
       THEN FlushCommit(s, r, "not_locked")
       ELSE IF ~can_unlock(r.snap[c].locked_by, u, role)
       THEN Reject(s, "Forbidden")
       ELSE FlushCommit(s, [r EXCEPT !.obj[c] = release_lock(@)],
                        "unlocked")
    /\ UNCHANGED <<now, project_members, versions, committed_calls>>

\* GET /api/chapters/{id}
get_chapter(s) ==
    LET r == req[s]
        c == r.chapter
        u == r.user
        role == IF c \in DOMAIN r.snap
                THEN verify_project_member(ChapterProject[c], u) ELSE Null
    IN
    /\ r.pc = "loaded" /\ r.op = "get"
    /\ IF ~require_editor(u) THEN Reject(s, "Forbidden")
       ELSE IF c \notin DOMAIN r.snap THEN Reject(s, "NotFound")
       ELSE IF role = Null THEN Reject(s, "Forbidden")
       ELSE IF r.snap[c].locked_by # Null /\ is_lock_expired(r.snap[c], now)
       THEN FlushCommit(s, [r EXCEPT
                !.obj[c] = release_lock(@),
                !.reply = ChapterContentResponse(release_lock(r.obj[c]), TRUE)],
                "ok")
       ELSE FlushCommit(s, [r EXCEPT
                !.reply = ChapterContentResponse(r.obj[c], FALSE)], "ok")
    /\ UNCHANGED <<now, project_members, versions, committed_calls>>

\* update_chapter_status: the statuses named in StatusUpdateResponse
StatusUpdateResponse(old_status, new_status) ==
    [old_status |-> old_status, new_status |-> new_status]

\* PUT /api/chapters/{id}/status
update_chapter_status(s) ==
    LET r == req[s]
        c == r.chapter
        u == r.user
        role == IF c \in DOMAIN r.snap
                THEN verify_project_member(ChapterProject[c], u) ELSE Null
    IN
    /\ r.pc = "loaded" /\ r.op = "status"
    /\ IF c \notin DOMAIN r.snap THEN Reject(s, "NotFound")
       ELSE IF role = Null THEN Reject(s, "Forbidden")
       ELSE IF ~validate_status_transition(r.snap[c].status, r.arg, role,
                                           GlobalRole[u])
       THEN Reject(s, "Forbidden")
       ELSE FlushCommit(s, [r EXCEPT !.obj[c].status = r.arg,
                                     !.reply = StatusUpdateResponse(
                                                  r.snap[c].status, r.arg)],
                        "ok")
    /\ UNCHANGED <<now, project_members, versions, committed_calls>>

\* PUT /api/chapters/{id}/content, up to the call of create_version: the
\* permission check, the implicit lock, the new content and status, and
\* the UPDATE that the session sends before its next query
update_chapter_content(s) ==
    LET r == req[s]
        c == r.chapter
        u == r.user
        role == IF c \in DOMAIN r.snap
                THEN verify_project_member(ChapterProject[c], u) ELSE Null
        locked == IF r.snap[c].locked_by = Null
                     \/ is_lock_expired(r.snap[c], now)
                  THEN [r EXCEPT !.obj[c] = acquire_lock(@, u, now),
                                 !.stamped = TRUE]
                  ELSE r
        edited == [locked EXCEPT !.obj[c].content = r.arg,
                                 !.obj[c].status = "generated",
                                 !.pc = "flushed"]
    IN
    /\ r.pc = "loaded" /\ r.op = "content"
    /\ IF ~require_editor(u) THEN Reject(s, "Forbidden")
       ELSE IF c \notin DOMAIN r.snap THEN Reject(s, "NotFound")
       ELSE IF ~check_edit_permission(r.snap[c], role, u, now)
       THEN Reject(s, "Conflict")
       ELSE IF c \notin DOMAIN chapters THEN Reject(s, "StaleDataError")
       ELSE /\ RowLockFree(c, s)
            /\ req' = [req EXCEPT ![s] = edited]
            /\ UNCHANGED chapters
    /\ UNCHANGED <<now, project_members, versions, committed_calls>>

\* POST /api/projects/{id}/versions, up to the call of create_version:
\* verify_editor_role, then create_project_snapshot loads the chapters
create_manual_snapshot(s, u, p) ==
    LET role == verify_project_member(p, u)
        rows == [c \in {d \in DOMAIN chapters : ChapterProject[d] = p} |->
                    chapters[c]]
        r == [Idle EXCEPT !.op = "snapshot", !.user = u, !.project = p]
    IN
    /\ req[s].pc \in {"idle", "done"}
    /\ VersionsRequested < MaxVersions
    /\ req' = [req EXCEPT ![s] =
            IF ~require_editor(u) THEN Done(r, "Forbidden")
            ELSE IF role = Null THEN Done(r, "NotFound")
            ELSE IF role \notin {"owner", "editor"} THEN Done(r, "Forbidden")
            ELSE [r EXCEPT !.pc = "loaded", !.snap = rows, !.obj = rows]]
    /\ UNCHANGED <<now, project_members, chapters, versions, committed_calls>>

\* the arguments with which the handler of request r calls create_version
ChapterEdit(r) ==
    [chapter_id |-> r.chapter, change_type |-> "manual_edit",
     snapshot_data |->
        [chapter_id |-> str(r.chapter),
         chapter_number |-> r.obj[r.chapter].chapter_number,
         title |-> r.obj[r.chapter].title,
         old_content |-> r.snap[r.chapter].content,
         new_content |-> r.arg]]

ManualSnapshot(r) ==
    [chapter_id |-> Null, change_type |-> "manual_edit",
     snapshot_data |-> ProjectSnapshot(r.obj, r.project)]

\* VersionService.create_version: lock the project row, read the maximum
\* version number, insert the next one
create_version(s) ==
    LET r == req[s]
        p == r.project
        call == IF r.op = "content" THEN ChapterEdit(r) ELSE ManualSnapshot(r)
        row == [project_id |-> p,
                version_number |-> NextVersionNumber(MaxVersion(p)),
                chapter_id |-> call.chapter_id,
                change_type |-> call.change_type,
                created_by |-> r.user,
                snapshot_data |-> call.snapshot_data]
    IN
    /\ r.op \in {"content", "snapshot"}
    /\ r.pc = (IF r.op = "content" THEN "flushed" ELSE "loaded")
    /\ ProjectLockFree(p, s)
    /\ req' = [req EXCEPT ![s] = [r EXCEPT !.pc = "staged",
                                          !.staged = <<row>>]]
    /\ UNCHANGED <<now, project_members, chapters, versions, committed_calls>>

\* models/version.py ProjectVersion.chapter_id, ondelete="SET NULL": the
\* version rows after the chapters in deleted have been deleted
on_delete_set_null(rows, deleted) ==
    {[v EXCEPT !.chapter_id = IF @ \in deleted THEN Null ELSE @] : v \in rows}

\* history of a rollback, kept with its answer: the title and the content
\* of every chapter at the moment the rollback commits its overwrites
Before(r) ==
    IF r.op = "rollback"
    THEN <<[c \in DOMAIN chapters |->
              [title |-> chapters[c].title, content |-> chapters[c].content]]>>
    ELSE <<>>

\* variant: the first version row of the transaction survives the rollback
session_rollback_keeps_first(rows) ==
    {v \in rows : \A w \in rows : v.version_number <= w.version_number}

\* db/database.py get_db: session.rollback() after an exception; the rows
\* the transaction had inserted that remain
session_rollback(rows) == {}

\* db/database.py get_db: the session commits when the handler has returned;
\* the unique constraint uq_project_version rejects a duplicate number
Commit(s) ==
    LET r == req[s]
        c == r.chapter
        rows == {r.staged[i] : i \in DOMAIN r.staged}
    IN
    /\ r.pc = "staged"
    /\ IF \E v \in rows, w \in versions :
             w.project_id = v.project_id
             /\ w.version_number = v.version_number
       THEN /\ req' = [req EXCEPT ![s] = Done([r EXCEPT !.reply = <<>>],
                                              "IntegrityError")]
            /\ versions' = versions \cup session_rollback(rows)
            /\ UNCHANGED <<chapters, committed_calls>>
       ELSE /\ versions' =
                 rows \cup (IF r.op = "outline"
                            THEN on_delete_set_null(versions, DOMAIN r.snap)
                            ELSE versions)
            /\ committed_calls' =
                 [committed_calls EXCEPT ![r.project] = @ + Len(r.staged)]
            /\ chapters' =
                 IF r.op \in {"content", "generate"}
                 THEN [chapters EXCEPT ![c] = Flushed(@, r, c)]
                 ELSE IF r.op = "rollback"
                 THEN [d \in DOMAIN chapters |->
                         IF d \in DOMAIN r.obj
                         THEN Flushed(chapters[d], r, d) ELSE chapters[d]]
                 ELSE IF r.op = "outline"
                 THEN [d \in (DOMAIN chapters \ DOMAIN r.snap)
                             \cup DOMAIN r.obj |->
                         IF d \in DOMAIN r.obj THEN r.obj[d] ELSE chapters[d]]
                 ELSE chapters
            /\ req' = [req EXCEPT ![s] =
                  [Done(r, "saved") EXCEPT !.before = Before(r)]]
    /\ UNCHANGED <<now, project_members>>

\* variant: the version with that id, of whichever project
get_version_any_project(p, id) ==
    IF \E v \in versions : v.version_number = id
    THEN <<CHOOSE v \in versions : v.version_number = id>>
    ELSE <<>>

\* VersionService.get_version: the version of project p with that id, the
\* version number standing for the id; the empty tuple stands for None
get_version(p, id) ==
    IF \E v \in versions : v.project_id = p /\ v.version_number = id
    THEN <<CHOOSE v \in versions : v.project_id = p /\ v.version_number = id>>
    ELSE <<>>

\* variant: the generation handlers leave a number out
_get_next_version_number_gap(p) == MaxVersion(p) + 2

\* routers/outline.py _get_next_version_number: (max or 0) + 1, read
\* without a lock on the project row
_get_next_version_number(p) == MaxVersion(p) + 1

\* POST /api/outline/generate-project-stream, up to the stream of the
\* model's answer: _verify_project_editor
generate_project_outline_stream(s, u, p) ==
    LET role == verify_project_member(p, u)
        r == [Idle EXCEPT !.op = "outline", !.user = u, !.project = p]
    IN
    /\ req[s].pc \in {"idle", "done"}
    /\ VersionsRequested < MaxVersions
    /\ req' = [req EXCEPT ![s] =
            IF ~require_editor(u) THEN Done(r, "Forbidden")
            ELSE IF role = Null THEN Done(r, "NotFound")
            ELSE IF role \notin {"owner", "editor"} THEN Done(r, "Forbidden")
            ELSE [r EXCEPT !.pc = "loaded", !.snap = <<>>, !.obj = <<>>]]
    /\ UNCHANGED <<now, project_members, chapters, versions, committed_calls>>

\* generate_project_outline_stream, generate() after the stream: the
\* chapters of the project are deleted, the chapters of the outline are
\* created and a version row is inserted; snap holds the deleted rows and
\* obj the created ones
outline_generated(s, title) ==
    LET r == req[s]
        p == r.project
        old == {c \in DOMAIN chapters : ChapterProject[c] = p}
        created == [c \in GeneratedChapters |->
                      [NewChapter EXCEPT !.title = title]]
        row == [project_id |-> p,
                version_number |-> _get_next_version_number(p),
                chapter_id |-> Null,
                change_type |-> "ai_generate",
                created_by |-> r.user,
                snapshot_data |->
                   [outline |-> <<[title |-> title]>>,
                    total_chapters |-> Cardinality(GeneratedChapters)]]
    IN
    /\ r.op = "outline" /\ r.pc = "loaded"
    /\ GeneratedChapters \cap DOMAIN chapters = {}
    /\ \A c \in old : RowLockFree(c, s)
    /\ req' = [req EXCEPT ![s] =
          [r EXCEPT !.pc = "staged",
                    !.snap = [c \in old |-> chapters[c]],
                    !.obj = created,
                    !.staged = <<row>>]]
    /\ UNCHANGED <<now, project_members, chapters, versions, committed_calls>>

\* POST /api/outline/generate-content-stream: _verify_project_editor, the
\* chapter, and generate() after the stream: the content and the status
\* are set and a version row is inserted
generate_project_content_stream(s) ==
    LET r == req[s]
        c == r.chapter
        u == r.user
        role == IF c \in DOMAIN r.snap
                THEN verify_project_member(ChapterProject[c], u) ELSE Null
        row == [project_id |-> r.project,
                version_number |-> _get_next_version_number(r.project),
                chapter_id |-> c,
                change_type |-> "ai_generate",
                created_by |-> u,
                snapshot_data |->
                   [chapter_id |-> str(c),
                    chapter_number |-> r.obj[c].chapter_number,
                    title |-> r.obj[c].title,
                    content |-> r.arg]]
    IN
    /\ r.pc = "loaded" /\ r.op = "generate"
    /\ IF ~require_editor(u) THEN Reject(s, "Forbidden")
       ELSE IF c \notin DOMAIN r.snap THEN Reject(s, "NotFound")
       ELSE IF role = Null THEN Reject(s, "NotFound")
       ELSE IF role \notin {"owner", "editor"} THEN Reject(s, "Forbidden")
       ELSE IF c \notin DOMAIN chapters THEN Reject(s, "StaleDataError")
       ELSE /\ RowLockFree(c, s)
            /\ req' = [req EXCEPT ![s] =
                  [r EXCEPT !.obj[c].content = r.arg,
                            !.obj[c].status = "generated",
                            !.pc = "staged",
                            !.staged = <<row>>]]
            /\ UNCHANGED chapters
    /\ UNCHANGED <<now, project_members, versions, committed_calls>>

\* the response of a generation handler is streamed after the handler has
\* returned: depending on when the framework finishes get_db, the session
\* that generate() writes to is committed afterwards (Commit) or was
\* closed before, and then its writes are never committed
Discard(s) ==
    /\ req[s].pc = "staged" /\ req[s].op \in {"outline", "generate"}
    /\ req' = [req EXCEPT ![s] = Done(req[s], "discarded")]
    /\ UNCHANGED <<now, project_members, chapters, versions, committed_calls>>

RollbacksRequested ==
    Cardinality({v \in versions : v.change_type = "rollback"})
    + Cardinality({t \in Sessions : req[t].op = "rollback"
                                    /\ req[t].pc \in InFlight})

\* rollback_to_version: current_snapshot, the payload of the pre-snapshot
CurrentSnapshot(rows, ids) ==
    LET list == by_order_index(rows, ids)
    IN [chapters |->
          [i \in DOMAIN list |->
              [id |-> str(list[i]),
               chapter_number |-> rows[list[i]].chapter_number,
               title |-> rows[list[i]].title,
               content |-> rows[list[i]].content,
               status |-> rows[list[i]].status,
               parent_id |-> rows[list[i]].parent_id]]]

\* POST /api/projects/{id}/versions/{version_id}/rollback, up to the first
\* call of create_version: verify_editor_role, get_version and, for the
\* pre-snapshot, the chapters of the project as they are now
post_rollback(s, u, p, id, create_snapshot) ==
    LET role == verify_project_member(p, u)
        target == get_version(p, id)
        ids == IF create_snapshot
               THEN {c \in DOMAIN chapters : ChapterProject[c] = p} ELSE {}
        rows == [c \in ids |-> chapters[c]]
        r == [Idle EXCEPT !.op = "rollback", !.user = u, !.project = p]
    IN
    /\ req[s].pc \in {"idle", "done"}
    /\ req' = [req EXCEPT ![s] =
            IF ~require_editor(u) THEN Done(r, "Forbidden")
            ELSE IF role = Null THEN Done(r, "NotFound")
            ELSE IF role \notin {"owner", "editor"} THEN Done(r, "Forbidden")
            ELSE IF target = <<>> THEN Done(r, "BadRequest")
            ELSE [r EXCEPT !.pc = "loaded", !.snap = rows, !.obj = rows,
                           !.arg = [target |-> target[1],
                                    create_snapshot |-> create_snapshot]]]
    /\ UNCHANGED <<now, project_members, chapters, versions, committed_calls>>

\* a rollback is requested while the project has room for another one
rollback_to_version(s, u, p, id, create_snapshot) ==
    /\ RollbacksRequested < MaxRollbacks
    /\ post_rollback(s, u, p, id, create_snapshot)

\* variant: create_version does not see the rows of its own transaction
VersionRow_committed_only(r, change_type, snapshot_data) ==
    [project_id |-> r.project,
     version_number |-> NextVersionNumber(MaxVersion(r.project)),
     chapter_id |-> Null,
     change_type |-> change_type,
     created_by |-> r.user,
     snapshot_data |-> snapshot_data]

\* variant: a number is left free after each row of the own transaction
VersionRow_leaves_room(r, change_type, snapshot_data) ==
    LET own == {r.staged[i].version_number : i \in DOMAIN r.staged}
        max_version ==
            IF own = {} THEN MaxVersion(r.project)
            ELSE CHOOSE n \in own \cup {MaxVersion(r.project)} :
                    \A m \in own \cup {MaxVersion(r.project)} : m <= n
    IN [project_id |-> r.project,
        version_number |-> NextVersionNumber(max_version) + Len(r.staged),
        chapter_id |-> Null,
        change_type |-> change_type,
        created_by |-> r.user,
        snapshot_data |-> snapshot_data]

\* variant: create_version stores a snapshot without chapters
VersionRow_empty_payload(r, change_type, snapshot_data) ==
    LET own == {r.staged[i].version_number : i \in DOMAIN r.staged}
        max_version ==
            IF own = {} THEN MaxVersion(r.project)
            ELSE CHOOSE n \in own \cup {MaxVersion(r.project)} :
                    \A m \in own \cup {MaxVersion(r.project)} : m <= n
    IN [project_id |-> r.project,
        version_number |-> NextVersionNumber(max_version),
        chapter_id |-> Null,
        change_type |-> change_type,
        created_by |-> r.user,
        snapshot_data |-> [chapters |-> <<>>]]

\* the version row create_version inserts for request r, which sees the
\* rows its own transaction has inserted
VersionRow(r, change_type, snapshot_data) ==
    LET own == {r.staged[i].version_number : i \in DOMAIN r.staged}
        max_version ==
            IF own = {} THEN MaxVersion(r.project)
            ELSE CHOOSE n \in own \cup {MaxVersion(r.project)} :
                    \A m \in own \cup {MaxVersion(r.project)} : m <= n
    IN [project_id |-> r.project,
        version_number |-> NextVersionNumber(max_version),
        chapter_id |-> Null,
        change_type |-> change_type,
        created_by |-> r.user,
        snapshot_data |-> snapshot_data]

\* rollback_to_version with create_pre_snapshot: create_version stores the
\* current state of the chapters; the project row stays locked
rollback_pre_snapshot(s) ==
    LET r == req[s]
        row == VersionRow(r, "rollback", CurrentSnapshot(r.obj, DOMAIN r.obj))
    IN
    /\ r.op = "rollback" /\ r.pc = "loaded" /\ r.arg.create_snapshot
    /\ ProjectLockFree(r.project, s)
    /\ req' = [req EXCEPT ![s] = [r EXCEPT !.pc = "presnap",
                                          !.staged = <<row>>]]
    /\ UNCHANGED <<now, project_members, chapters, versions, committed_calls>>

\* variant: a chapter that no longer exists is found as a new one
scalar_one_or_none_stale(rows, ch_id) ==
    IF ch_id \in DOMAIN rows THEN <<rows[ch_id]>> ELSE <<NewChapter>>

\* rollback_to_version: select(Chapter).where(Chapter.id == ch_id) and
\* result.scalar_one_or_none()
scalar_one_or_none(rows, ch_id) ==
    IF ch_id \in DOMAIN rows THEN <<rows[ch_id]>> ELSE <<>>

\* variant: the rollback leaves a locked chapter alone
restored_unless_locked(row, ch_data) ==
    IF row.locked_by # Null THEN row
    ELSE [row EXCEPT !.title = IF "title" \in DOMAIN ch_data
                               THEN ch_data.title ELSE @,
                     !.content = get(ch_data, "content")]

\* variant: the rollback restores the status too
restored_with_status(row, ch_data) ==
    [row EXCEPT !.title = IF "title" \in DOMAIN ch_data THEN ch_data.title
                          ELSE @,
                !.content = get(ch_data, "content"),
                !.status = get(ch_data, "status")]

\* rollback_to_version: chapter.title = ch_data.get("title", chapter.title)
\* and chapter.content = ch_data.get("content")
restored(row, ch_data) ==
    [row EXCEPT !.title = IF "title" \in DOMAIN ch_data THEN ch_data.title
                          ELSE @,
                !.content = get(ch_data, "content")]

\* rollback_to_version, the restore loop and the second create_version: each
\* payload entry with an id that names an existing chapter overwrites that
\* chapter, a chapter the session has loaded before keeps the attributes it
\* was loaded with, and the UPDATEs are sent before create_version queries
rollback_restore(s) ==
    LET r == req[s]
        list == chapters_of(r.arg.target.snapshot_data)
        named == {i \in DOMAIN list : get(list[i], "id") # Null}
        found == {i \in named :
                    scalar_one_or_none(chapters, UUID(list[i].id)) # <<>>}
        ids == {UUID(list[i].id) : i \in found}
        last(c) == CHOOSE i \in found :
                      /\ UUID(list[i].id) = c
                      /\ \A j \in found : UUID(list[j].id) = c => j <= i
        loaded == [c \in DOMAIN r.obj \cup ids |->
                     IF c \in DOMAIN r.obj THEN r.snap[c]
                     ELSE scalar_one_or_none(chapters, c)[1]]
        edited == [c \in DOMAIN loaded |->
                     IF c \in ids THEN restored(loaded[c], list[last(c)])
                     ELSE loaded[c]]
        q == [r EXCEPT !.snap = loaded, !.obj = edited]
        row == VersionRow(r, "rollback", r.arg.target.snapshot_data)
    IN
    /\ r.op = "rollback" /\ r.pc \in {"loaded", "presnap"}
    /\ r.pc = (IF r.arg.create_snapshot THEN "presnap" ELSE "loaded")
    /\ \A c \in ids : Dirty(q, c) # {} => RowLockFree(c, s)
    /\ ProjectLockFree(r.project, s)
    /\ req' = [req EXCEPT ![s] =
          [q EXCEPT !.pc = "staged",
                    !.staged = r.staged \o <<row>>,
                    !.reply =
                       [target_version_number |->
                            r.arg.target.version_number,
                        new_version_number |-> row.version_number,
                        pre_snapshot_id |->
                            IF r.arg.create_snapshot
                            THEN <<r.staged[1].version_number>> ELSE <<>>,
                        restored_chapters |-> {str(c) : c \in ids}]]]
    /\ UNCHANGED <<now, project_members, chapters, versions, committed_calls>>

\* POST /api/projects/{id}/members
add_project_member(u, p, target, role) ==
    /\ project_members[p][u] \in {"owner", "editor"}
    /\ project_members[p][target] = Null
    /\ project_members' = [project_members EXCEPT ![p][target] = role]
    /\ UNCHANGED <<now, chapters, versions, committed_calls, req>>

\* DELETE /api/projects/{id}/members/{user_id}
remove_project_member(u, p, target) ==
    /\ project_members[p][u] \in {"owner", "editor"}
    /\ creator_id[p] # target
    /\ project_members[p][target] # Null
    /\ project_members' = [project_members EXCEPT ![p][target] = Null]
    /\ UNCHANGED <<now, chapters, versions, committed_calls, req>>

\* VersionService.diff_versions when a version is missing: the dict it
\* returns
diff_versions_error(v1, v2) ==
    [error |-> "version does not exist",
     v1_found |-> v1 # <<>>, v2_found |-> v2 # <<>>]

\* diff_project_versions: HTTPException(404, detail=diff_result["error"])
HTTPException(diff_result) == [detail |-> diff_result.error]

\* GET /api/projects/{id}/versions/diff: verify_project_member, then
\* VersionService.diff_versions
diff_project_versions(s, u, p, id1, id2) ==
    LET r == [Idle EXCEPT !.op = "diff", !.user = u, !.project = p]
        v1 == get_version(p, id1)
        v2 == get_version(p, id2)
        info(v) == [version_number |-> v.version_number,
                    change_type |-> v.change_type]
    IN
    /\ req[s].pc \in {"idle", "done"}
    /\ req' = [req EXCEPT ![s] =
          IF verify_project_member(p, u) = Null THEN Done(r, "NotFound")
          ELSE IF v1 = <<>> \/ v2 = <<>>
          THEN Done([r EXCEPT !.reply =
                        HTTPException(diff_versions_error(v1, v2))],
                    "NotFound")
          ELSE Done([r EXCEPT !.reply =
                        [v1 |-> info(v1[1]), v2 |-> info(v2[1]),
                         diff |-> _compute_diff(v1[1].snapshot_data,
                                                v2[1].snapshot_data)]],
                    "ok")]
    /\ UNCHANGED <<now, project_members, chapters, versions, committed_calls>>

(***************************************************************************)
(* Specifications                                                          *)
(***************************************************************************)
Editors == {"s1", "s2"}

BeginLockOp ==
    \E s \in Editors, u \in Users, c \in Chapters \cup {MissingChapter},
       op \in {"lock", "unlock", "get"} :
        Begin(s, u, op, c, "none")

BeginWrite ==
    \E s \in Editors, u \in Users, c \in Chapters, t \in Contents :
        Begin(s, u, "content", c, t)

BeginSnapshot ==
    \E s \in Sessions, u \in Users, p \in Projects :
        create_manual_snapshot(s, u, p)

Membership ==
    \/ \E u \in Users, p \in Projects, t \in Users, r \in ProjectMemberRole :
          add_project_member(u, p, t, r)
    \/ \E u \in Users, p \in Projects, t \in Users :
          remove_project_member(u, p, t)

\* the lock manager: two sessions of members who acquire, release and
\* inspect the chapter lock while time passes and membership changes
Next ==
    \/ Tick
    \/ BeginLockOp
    \/ \E s \in Sessions : lock_chapter(s)
    \/ \E s \in Sessions : unlock_chapter(s)
    \/ \E s \in Sessions : get_chapter(s)
    \/ Membership

Spec == Init /\ [][Next]_vars

\* the write path: two sessions that lock and save a chapter
NextWrite ==
    \/ Tick
    \/ \E s \in Editors, u \in Users, c \in Chapters :
          Begin(s, u, "lock", c, "none")
    \/ BeginWrite
    \/ \E s \in Sessions : lock_chapter(s)
    \/ \E s \in Sessions : update_chapter_content(s)
    \/ \E s \in Sessions : create_version(s)
    \/ \E s \in Sessions : Commit(s)

SpecWrite == Init /\ [][NextWrite]_vars

\* the version allocator: three sessions that save chapters and take
\* snapshots of the project
NextVersions ==
    \/ BeginWrite
    \/ BeginSnapshot
    \/ \E s \in Sessions : update_chapter_content(s)
    \/ \E s \in Sessions : create_version(s)
    \/ \E s \in Sessions : Commit(s)

SpecVersions == Init /\ [][NextVersions]_vars

BeginRollback ==
    \E s \in Sessions \ Editors, u \in Users, p \in Projects,
       id \in 1..MaxVersions, create_snapshot \in BOOLEAN :
        rollback_to_version(s, u, p, id, create_snapshot)

\* the history: a session that saves the chapter, one that takes snapshots
\* of the project, and a third that rolls the project back to a version
NextRollback ==
    \/ \E u \in Users, c \in Chapters, t \in Contents :
          Begin("s1", u, "content", c, t)
    \/ \E u \in Users, p \in Projects : create_manual_snapshot("s2", u, p)
    \/ BeginRollback
    \/ \E s \in Sessions : update_chapter_content(s)
    \/ \E s \in Sessions : create_version(s)
    \/ \E s \in Sessions : rollback_pre_snapshot(s)
    \/ \E s \in Sessions : rollback_restore(s)
    \/ \E s \in Sessions : Commit(s)

SpecRollback == Init /\ [][NextRollback]_vars

\* the version log: a session in which alice saves a chapter or has its
\* content generated, one in which bob takes snapshots or regenerates the
\* outline of the project, and a third in which alice rolls the project
\* back to a version
NextHistory ==
    \/ \E c \in Chapters \cup GeneratedChapters, t \in Contents,
          op \in {"content", "generate"} : Begin("s1", "alice", op, c, t)
    \/ \E p \in Projects : create_manual_snapshot("s2", "bob", p)
    \/ \E p \in Projects : generate_project_outline_stream("s2", "bob", p)
    \/ \E p \in Projects, id \in 1..MaxVersions, create_snapshot \in BOOLEAN :
          rollback_to_version("s3", "alice", p, id, create_snapshot)
    \/ \E s \in Sessions : update_chapter_content(s)
    \/ \E s \in Sessions : generate_project_content_stream(s)
    \/ \E s \in Sessions, title \in Titles : outline_generated(s, title)
    \/ \E s \in Sessions : create_version(s)
    \/ \E s \in Sessions : rollback_pre_snapshot(s)
    \/ \E s \in Sessions : rollback_restore(s)
    \/ \E s \in Sessions : Commit(s)
    \/ \E s \in Sessions : Discard(s)

SpecHistory == Init /\ [][NextHistory]_vars

\* the chapter rows a project can have had when a snapshot was taken
SnapshotRows ==
    UNION {[ids -> [title : Titles, content : {Null, "draft A"}]] :
              ids \in SUBSET (Chapters \cup GeneratedChapters)}

\* the payloads of the versions that are compared: snapshots of the whole
\* project and the payload of a chapter edit
Payloads ==
    {ProjectSnapshot(
        [c \in DOMAIN f |->
            [NewChapter EXCEPT !.title = f[c].title, !.content = f[c].content,
                               !.order_index = IF c \in Chapters THEN 0 ELSE 1]],
        "P") : f \in SnapshotRows}
    \cup {[chapter_id |-> str("c1"), chapter_number |-> "1", title |-> "T",
           old_content |-> Null, new_content |-> "draft A"]}

\* a project with two versions
InitDiff ==
    /\ now = 0
    /\ project_members =
         [p \in Projects |-> [u \in Users |->
             IF u = creator_id[p] THEN "owner" ELSE "editor"]]
    /\ chapters = [c \in Chapters |-> NewChapter]
    /\ versions \in
         {{[project_id |-> "P", version_number |-> n,
            chapter_id |-> IF "chapters" \in DOMAIN data[n] THEN Null ELSE "c1",
            change_type |-> "manual_edit", created_by |-> "alice",
            snapshot_data |-> data[n]] : n \in 1..2} :
          data \in [1..2 -> Payloads]}
    /\ committed_calls = [p \in Projects |-> 2]
    /\ req = [s \in Sessions |-> Idle]

\* the version comparison: the owner compares the versions of the project
\* in two sessions, and asks for a version that does not exist
NextDiff ==
    \E s \in Editors, p \in Projects, id1, id2 \in 1..3 :
        diff_project_versions(s, creator_id[p], p, id1, id2)

SpecDiff == InitDiff /\ [][NextDiff]_vars

\* the longest version history of a project in which a chapter is edited
\* while it is rolled back
MaxOverrideVersions == 4

\* a project whose only chapter is in a manual snapshot, version 1
InitOverride ==
    /\ now = 0
    /\ project_members =
         [p \in Projects |-> [u \in Users |->
             IF u = creator_id[p] THEN "owner" ELSE "editor"]]
    /\ chapters = [c \in Chapters |-> NewChapter]
    /\ versions =
         {[project_id |-> "P", version_number |-> 1, chapter_id |-> Null,
           change_type |-> "manual_edit", created_by |-> "alice",
           snapshot_data |-> ProjectSnapshot(chapters, "P")]}
    /\ committed_calls = [p \in Projects |-> 1]
    /\ req = [s \in Sessions |-> Idle]

\* the edit under a rollback: alice saves the chapter, which she locks by
\* saving it, and bob rolls the project back to a version
NextOverride ==
    \/ Tick
    \/ \E c \in Chapters, t \in Contents :
          /\ VersionsRequested < MaxOverrideVersions
          /\ Load("s1", "alice", "content", c, t)
    \/ \E p \in Projects, id \in 1..MaxVersions, create_snapshot \in BOOLEAN :
          rollback_to_version("s3", "bob", p, id, create_snapshot)
    \/ \E s \in Sessions : update_chapter_content(s)
    \/ \E s \in Sessions : create_version(s)
    \/ \E s \in Sessions : rollback_pre_snapshot(s)
    \/ \E s \in Sessions : rollback_restore(s)
    \/ \E s \in Sessions : Commit(s)

SpecOverride == InitOverride /\ [][NextOverride]_vars

\* the latest reading of the clock and the latest locked_at for which the
\* expiry of a lock is evaluated
MaxClock == 32
MaxLockedAt == 2

\* a chapter with any holder and any lock timestamp, at any time
InitExpiry ==
    /\ now \in 0..MaxClock
    /\ project_members =
         [p \in Projects |-> [u \in Users |->
             IF u = creator_id[p] THEN "owner" ELSE "editor"]]
    /\ chapters \in
         {[c \in Chapters |-> [NewChapter EXCEPT !.locked_by = b,
                                                 !.locked_at = a]] :
            b \in Users \cup {Null},
            a \in {<<>>} \cup {<<t>> : t \in 0..MaxLockedAt}}
    /\ versions = {}
    /\ committed_calls = [p \in Projects |-> 0]
    /\ req = [s \in Sessions |-> Idle]

\* _is_lock_expired(chapter) is evaluated and its value kept as the reply
lock_expired(s, c) ==
    /\ req[s].pc = "idle"
    /\ req' = [req EXCEPT ![s] =
          Done([Idle EXCEPT !.op = "expiry",
                            !.reply = [chapter |-> c,
                                       expired |-> is_lock_expired(chapters[c], now)]],
               "ok")]
    /\ UNCHANGED <<now, project_members, chapters, versions, committed_calls>>

NextExpiry == \E c \in Chapters : lock_expired("s1", c)

SpecExpiry == InitExpiry /\ [][NextExpiry]_vars

\* a project of which an administrator of the site is a member with the
\* role of editor
InitAdmin ==
    /\ now = 0
    /\ project_members =
         [p \in Projects |-> [u \in Accounts |->
             IF u = creator_id[p] THEN "owner" ELSE "editor"]]
    /\ chapters = [c \in Chapters |-> NewChapter]
    /\ versions = {}
    /\ committed_calls = [p \in Projects |-> 0]
    /\ req = [s \in Sessions |-> Idle]

\* the release of locks: two sessions in which the owner, an editor and an
\* administrator lock and unlock the chapter
NextUnlock ==
    \/ \E s \in Editors, u \in Accounts, c \in Chapters, op \in {"lock", "unlock"} :
          Begin(s, u, op, c, "none")
    \/ \E s \in Sessions : lock_chapter(s)
    \/ \E s \in Sessions : unlock_chapter(s)

SpecUnlock == InitAdmin /\ [][NextUnlock]_vars

\* a chapter in any status, in a project whose members other than the
\* owner have any role
InitTransition ==
    /\ now = 0
    /\ project_members \in
         {[p \in Projects |-> [u \in Accounts |->
             IF u = creator_id[p] THEN "owner"
             ELSE IF u \in Admins THEN admin_role ELSE member_role]] :
            admin_role \in ProjectMemberRole, member_role \in ProjectMemberRole}
    /\ chapters \in
         {[c \in Chapters |-> [NewChapter EXCEPT !.status = status]] :
            status \in ChapterStatus}
    /\ versions = {}
    /\ committed_calls = [p \in Projects |-> 0]
    /\ req = [s \in Sessions |-> Idle]

\* the status workflow with an administrator: a session in which the
\* owner, a member and an administrator ask for any status
NextTransition ==
    \/ \E u \in Accounts, c \in Chapters, new_status \in ChapterStatus :
          Begin("s1", u, "status", c, new_status)
    \/ \E s \in Sessions : update_chapter_status(s)

SpecTransition == InitTransition /\ [][NextTransition]_vars

\* the longest version history of a project in which a rollback is undone
MaxUndoVersions == 5

\* the version rows of all projects and the rollbacks in progress
HistoryRequested ==
    VersionsRequested
    + Cardinality({t \in Sessions : req[t].op = "rollback"
                                    /\ req[t].pc \in InFlight})

\* the undo: alice saves the chapter once, bob rolls the project back with
\* a pre-snapshot and alice rolls it back again
NextUndo ==
    \/ \E c \in Chapters, t \in Contents : Begin("s1", "alice", "content", c, t)
    \/ \E p \in Projects, id \in 1..MaxUndoVersions :
          /\ HistoryRequested < MaxUndoVersions
          /\ post_rollback("s3", "bob", p, id, TRUE)
    \/ \E p \in Projects, id \in 1..MaxUndoVersions, create_snapshot \in BOOLEAN :
          /\ HistoryRequested < MaxUndoVersions
          /\ \E v \in versions : v.change_type = "rollback"
          /\ post_rollback("s2", "alice", p, id, create_snapshot)
    \/ \E s \in Sessions : update_chapter_content(s)
    \/ \E s \in Sessions : create_version(s)
    \/ \E s \in Sessions : rollback_pre_snapshot(s)
    \/ \E s \in Sessions : rollback_restore(s)
    \/ \E s \in Sessions : Commit(s)

SpecUndo == InitOverride /\ [][NextUndo]_vars

\* no request that adds a version arrives once MaxProjectVersions versions
\* or requests exist in the two projects together
MaxProjectVersions == 5

\* two projects of the same owner, each with one chapter
InitProjects ==
    /\ now = 0
    /\ project_members =
         [p \in Projects \cup OtherProjects |-> [u \in Users |->
             IF u = creator_id[p] THEN "owner" ELSE "editor"]]
    /\ chapters = [c \in Chapters \cup OtherChapters |-> NewChapter]
    /\ versions = {}
    /\ committed_calls = [p \in Projects \cup OtherProjects |-> 0]
    /\ req = [s \in Sessions |-> Idle]

\* the two projects side by side: alice saves the chapters and takes
\* snapshots of either project, and bob rolls either project back
NextProjects ==
    \/ \E c \in Chapters \cup OtherChapters :
          /\ HistoryRequested < MaxProjectVersions
          /\ Load("s1", "alice", "content", c, "draft A")
    \/ \E p \in Projects \cup OtherProjects :
          create_manual_snapshot("s2", "alice", p)
    \/ \E p \in Projects \cup OtherProjects, id \in 1..MaxVersions, create_snapshot \in BOOLEAN :
          /\ HistoryRequested < MaxProjectVersions
          /\ post_rollback("s3", "bob", p, id, create_snapshot)
    \/ \E s \in Sessions : update_chapter_content(s)
    \/ \E s \in Sessions : create_version(s)
    \/ \E s \in Sessions : rollback_pre_snapshot(s)
    \/ \E s \in Sessions : rollback_restore(s)
    \/ \E s \in Sessions : Commit(s)

SpecProjects == InitProjects /\ [][NextProjects]_vars

BeginStatus ==
    \E s \in Editors, u \in Users, c \in Chapters, new_status \in ChapterStatus :
        Begin(s, u, "status", c, new_status)

\* the workflow: two sessions of members who move the chapter through its
\* statuses and save its content
NextStatus ==
    \/ BeginStatus
    \/ BeginWrite
    \/ \E s \in Sessions : update_chapter_status(s)
    \/ \E s \in Sessions : update_chapter_content(s)
    \/ \E s \in Sessions : create_version(s)
    \/ \E s \in Sessions : Commit(s)

SpecStatus == Init /\ [][NextStatus]_vars

(***************************************************************************)
(* Properties                                                              *)
(***************************************************************************)
\* the step in which the handler of request s, of kind op, answers
Answers(s, op) ==
    /\ req[s].pc = "loaded" /\ req[s].op = op
    /\ req[s].chapter \in Chapters
    /\ req'[s].pc # "loaded"

\* the chapter row as request s read it, and the committed row
Read(s) == req[s].snap[req[s].chapter]
Stored(s) == chapters[req[s].chapter]

\* the caller's role in the project when the handler checks it
Role(s) == project_members[ChapterProject[req[s].chapter]][req[s].user]

\* the caller passes the role checks of lock_chapter
Eligible(s) == require_editor(req[s].user) /\ Role(s) \in {"owner", "editor"}

\* a lock that is held and has not timed out at time t
Live(row, t) ==
    /\ row.locked_by # Null
    /\ row.locked_at # <<>>
    /\ t <= row.locked_at[1] + LOCK_TIMEOUT_MINUTES

VersionsOf(p) == {v \in versions : v.project_id = p}

\* C1: for every project, the create_version calls that have committed,
\* however they overlapped, left exactly one row each, and the version
\* numbers of the rows are exactly 1..N with N the number of calls
C1_VersionNumbersContiguous ==
    \A p \in Projects :
        /\ Cardinality(VersionsOf(p)) = committed_calls[p]
        /\ {v.version_number : v \in VersionsOf(p)} = 1..committed_calls[p]

\* two calls overlapped: the snapshot that became version 2 was read before
\* the edit that became version 1 was committed
C1_Witness ==
    \E v, w \in versions :
        /\ v.project_id = w.project_id
        /\ v.version_number = 1 /\ v.chapter_id \in Chapters
        /\ w.version_number = 2 /\ w.chapter_id = Null
        /\ \E i \in DOMAIN w.snapshot_data.chapters :
              /\ w.snapshot_data.chapters[i].id = str(v.chapter_id)
              /\ w.snapshot_data.chapters[i].content
                   # v.snapshot_data.new_content

\* C2: when two different eligible editors call lock_chapter concurrently on
\* a chapter that is unlocked or whose lock has expired, and one of them has
\* been told that it is the new holder, the other call answers Conflict and
\* leaves the committed lock with the caller that was told it succeeded
C2_OneNewHolder ==
    [][\A s, t \in Sessions :
        (/\ Answers(s, "lock") /\ Eligible(s)
         /\ ~Live(Read(s), now)
         /\ t # s /\ req[t].pc = "done" /\ req[t].op = "lock"
         /\ req[t].result = "locked" /\ req[t].user # req[s].user
         /\ Stored(s) # Read(s)
         /\ Stored(s).locked_by = req[t].user /\ Live(Stored(s), now))
        => (req'[s].result = "Conflict" /\ chapters' = chapters)]_vars

\* an edit by another editor, made from the content that request s read, has
\* been committed since s read the chapter
Overwritten(s) ==
    \E v \in versions :
        /\ v.chapter_id = req[s].chapter
        /\ v.created_by # req[s].user
        /\ v.snapshot_data.old_content = Read(s).content
        /\ v.snapshot_data.new_content = Stored(s).content
        /\ Stored(s).content # Read(s).content

\* C3: of two different editors who submit update_chapter_content to the
\* same chapter concurrently, neither holding a live lock at the start, only
\* one is applied: once the edit of one is committed, the other is
\* answered Conflict and writes nothing
C3_OneWriterWins ==
    [][\A s \in Sessions :
        (/\ Answers(s, "content") /\ Eligible(s)
         /\ ~Live(Read(s), now)
         /\ Overwritten(s))
        => (req'[s].result = "Conflict" /\ chapters' = chapters)]_vars

\* C4 as stated: while user A holds an unexpired lock, lock_chapter by any
\* other user B answers Conflict and leaves the lock fields as they are
C4_OtherUserGetsConflict ==
    [][\A s \in Sessions :
        (/\ Answers(s, "lock")
         /\ Live(Read(s), now) /\ Read(s).locked_by # req[s].user)
        => (req'[s].result = "Conflict" /\ chapters' = chapters)]_vars

\* C4, amended: while user A holds an unexpired lock, lock_chapter by any
\* other user B leaves the lock fields as they are; it answers Conflict when
\* B is an owner or editor member of the project and Forbidden when B is a
\* reviewer member or not a member
C4_OtherUserIsRefused ==
    [][\A s \in Sessions :
        (/\ Answers(s, "lock")
         /\ Live(Read(s), now) /\ Read(s).locked_by # req[s].user)
        => (/\ req'[s].result = IF Eligible(s) THEN "Conflict" ELSE "Forbidden"
            /\ chapters' = chapters)]_vars

\* an editor has been answered Conflict and the chapter is still locked,
\* unexpired, by the other user
C4_Witness ==
    \E s \in Sessions :
        /\ req[s].pc = "done" /\ req[s].op = "lock"
        /\ req[s].result = "Conflict"
        /\ project_members["P"][req[s].user] = "editor"
        /\ Live(chapters["c1"], now)
        /\ chapters["c1"].locked_by # req[s].user

\* C5: when more than LOCK_TIMEOUT_MINUTES have passed since the locked_at
\* of user A's lock, lock_chapter by an owner or editor member B other than
\* A succeeds, and afterwards locked_by is B and locked_at is the time of
\* B's call
C5_ExpiredLockIsReclaimed ==
    [][\A s \in Sessions :
        (/\ Answers(s, "lock") /\ Eligible(s)
         /\ Read(s).locked_by \notin {Null, req[s].user}
         /\ Read(s).locked_at # <<>>
         /\ now > Read(s).locked_at[1] + LOCK_TIMEOUT_MINUTES)
        => (/\ req'[s].result = "locked"
            /\ chapters'[req[s].chapter].locked_by = req[s].user
            /\ chapters'[req[s].chapter].locked_at = <<now>>)]_vars

\* a user has become the holder at the present time while a request in
\* progress still holds the row it read before: locked by the other user
\* more than LOCK_TIMEOUT_MINUTES earlier
C5_Witness ==
    \E s, t \in Sessions :
        /\ req[s].pc = "done" /\ req[s].op = "lock" /\ req[s].result = "locked"
        /\ chapters["c1"].locked_by = req[s].user
        /\ chapters["c1"].locked_at = <<now>>
        /\ req[t].pc = "loaded" /\ req[t].chapter = "c1"
        /\ Read(t).locked_by \notin {Null, req[s].user}
        /\ Read(t).locked_at # <<>>
        /\ now > Read(t).locked_at[1] + LOCK_TIMEOUT_MINUTES

C7_HolderAlwaysUnlocks ==
    [][\A s \in Sessions :
        (/\ Answers(s, "unlock")
         /\ Read(s).locked_by = req[s].user)
        => (/\ req'[s].result = "unlocked"
            /\ chapters'[req[s].chapter].locked_by = Null
            /\ chapters'[req[s].chapter].locked_at = <<>>)]_vars

\* C7, amended: unlock_chapter by the user recorded in locked_by succeeds
\* and clears both lock fields whenever that user passes the editor check
\* and is still a member of the chapter's project; a holder who has been
\* removed from the project is answered Forbidden
C7_MemberHolderUnlocks ==
    [][\A s \in Sessions :
        (/\ Answers(s, "unlock")
         /\ Read(s).locked_by = req[s].user)
        => IF require_editor(req[s].user) /\ Role(s) # Null
           THEN /\ req'[s].result = "unlocked"
                /\ chapters'[req[s].chapter].locked_by = Null
                /\ chapters'[req[s].chapter].locked_at = <<>>
           ELSE /\ req'[s].result = "Forbidden"
                /\ chapters' = chapters]_vars

\* a member who is not the owner has released the lock and both fields are
\* null
C7_Witness ==
    \E s \in Sessions :
        /\ req[s].pc = "done" /\ req[s].op = "unlock"
        /\ req[s].result = "unlocked"
        /\ project_members["P"][req[s].user] \in {"editor", "reviewer"}
        /\ chapters["c1"].locked_by = Null
        /\ chapters["c1"].locked_at = <<>>

\* C8: in every reachable state, locked_by and locked_at of every chapter
\* are both null or both set
C8_LockFieldsTogether ==
    \A c \in Chapters :
        (chapters[c].locked_by = Null) <=> (chapters[c].locked_at = <<>>)

\* C9: a successful update_chapter_content by user W leaves locked_by = W,
\* and it is never applied while another user holds an unexpired lock
C9_WriteUnderOwnLock ==
    [][\A s \in Sessions :
        (/\ req[s].pc = "staged" /\ req[s].op = "content"
         /\ req'[s].pc = "done" /\ req'[s].result = "saved")
        => (/\ chapters'[req[s].chapter].locked_by = req[s].user
            /\ ~(/\ Live(Stored(s), now)
                 /\ Stored(s).locked_by # req[s].user))]_vars

\* C10: lock_chapter by the user who holds an unexpired lock, an owner or
\* editor member of the project, succeeds as a refresh, keeps locked_by and
\* sets locked_at to the time of the call, which is not earlier than the
\* previous locked_at
C10_HolderRefreshes ==
    [][\A s \in Sessions :
        (/\ Answers(s, "lock") /\ Eligible(s)
         /\ Live(Read(s), now) /\ Read(s).locked_by = req[s].user)
        => (/\ req'[s].result = "refreshed"
            /\ chapters'[req[s].chapter].locked_by = req[s].user
            /\ chapters'[req[s].chapter].locked_at = <<now>>
            /\ now >= Read(s).locked_at[1])]_vars

\* C11: get_chapter leaves every field of the chapter as it is when the
\* lock it read is absent or has not timed out; when the lock it read has
\* timed out, the stored locked_by and locked_at are both cleared by the
\* time it answers, and the answer shows the chapter as unlocked.
C11_InspectClearsOnlyExpired ==
    [][\A s \in Sessions :
         (Answers(s, "get") /\ req'[s].result = "ok") =>
            IF Read(s).locked_by # Null /\ ~Live(Read(s), now)
            THEN /\ chapters'[req[s].chapter].locked_by = Null
                 /\ chapters'[req[s].chapter].locked_at = <<>>
                 /\ ~req'[s].reply.is_locked
                 /\ req'[s].reply.locked_by = <<>>
                 /\ req'[s].reply.locked_at = <<>>
            ELSE /\ chapters' = chapters
                 /\ req'[s].reply.is_locked = (Read(s).locked_by # Null)]_vars

\* a get_chapter call has answered after clearing a timed-out lock
C11_Witness ==
    \E s \in Sessions :
        /\ req[s].pc = "done" /\ req[s].op = "get" /\ req[s].result = "ok"
        /\ req[s].reply.lock_expired
        /\ \A c \in Chapters : chapters[c].locked_by = Null

\* C12: every Conflict of lock_chapter carries the holder and the lock
\* timestamp of the lock the call found on the chapter, and that lock
\* belongs to another user and has not timed out.
C12_ConflictNamesHolder ==
    [][\A s \in Sessions :
         (Answers(s, "lock") /\ req'[s].result = "Conflict") =>
            /\ Live(Read(s), now)
            /\ Read(s).locked_by # req[s].user
            /\ req'[s].reply.X_Locked_By = str(Read(s).locked_by)
            /\ req'[s].reply.X_Locked_At = isoformat(Read(s).locked_at[1])]_vars

\* a lock_chapter call has been refused with the holder's name and time
C12_Witness ==
    \E s \in Sessions :
        /\ req[s].pc = "done" /\ req[s].op = "lock"
        /\ req[s].result = "Conflict"
        /\ req[s].reply.X_Locked_By \in {str(u) : u \in Users \ {req[s].user}}
        /\ req[s].reply.X_Locked_At # <<>>

\* the answer of a version comparison that found both versions
Compared(s) ==
    req[s].pc = "done" /\ req[s].op = "diff" /\ req[s].result = "ok"

\* C19: comparing a version with itself reports no change: total_changes,
\* added, deleted and modified are 0 and the list of changes is empty,
\* whatever the payload of the version.
C19_SelfDiffIsEmpty ==
    \A s \in Sessions :
        (Compared(s) /\ req[s].reply.v1.version_number
                         = req[s].reply.v2.version_number) =>
            /\ req[s].reply.diff.total_changes = 0
            /\ req[s].reply.diff.added = 0
            /\ req[s].reply.diff.deleted = 0
            /\ req[s].reply.diff.modified = 0
            /\ req[s].reply.diff.changes = {}

\* a snapshot with two chapters has been compared with itself
C19_Witness ==
    \E s \in Sessions :
        /\ Compared(s)
        /\ req[s].reply.v1.version_number = req[s].reply.v2.version_number
        /\ \E v \in versions :
              /\ v.version_number = req[s].reply.v1.version_number
              /\ Len(chapters_of(v.snapshot_data)) = 2

\* the chapter keys a comparison reports with the given type
Reported(s, type) ==
    {ch.chapter_id : ch \in {x \in req[s].reply.diff.changes : x.type = type}}

\* C20: for two snapshots of the whole project, comparing A with B and B
\* with A report the same set of chapter keys; a chapter added in one
\* direction is deleted in the other, and a modified chapter is modified
\* in both.
C20_DiffIsSymmetric ==
    \A s, t \in Sessions :
        (/\ Compared(s) /\ Compared(t)
         /\ req[s].reply.v1 = req[t].reply.v2
         /\ req[s].reply.v2 = req[t].reply.v1
         /\ \A v \in versions : "chapters" \in DOMAIN v.snapshot_data) =>
            /\ Reported(s, "added") = Reported(t, "deleted")
            /\ Reported(s, "deleted") = Reported(t, "added")
            /\ Reported(s, "modified") = Reported(t, "modified")

\* two different snapshots have been compared in both directions, with a
\* chapter added one way and a chapter modified
C20_Witness ==
    \E s, t \in Sessions :
        /\ Compared(s) /\ Compared(t)
        /\ req[s].reply.v1 = req[t].reply.v2
        /\ req[s].reply.v2 = req[t].reply.v1
        /\ req[s].reply.v1 # req[s].reply.v2
        /\ \A v \in versions : "chapters" \in DOMAIN v.snapshot_data
        /\ Reported(s, "added") # {} /\ Reported(t, "deleted") # {}
        /\ Reported(s, "modified") # {}

\* the step in which the rollback request of session s commits
RolledBack(s) ==
    /\ req[s].pc = "staged" /\ req[s].op = "rollback"
    /\ req'[s].pc = "done" /\ req'[s].result = "saved"

\* the chapter entries of the payload the rollback of session s restores
TargetEntries(s) ==
    LET list == chapters_of(req[s].arg.target.snapshot_data)
    IN {list[i] : i \in DOMAIN list}

\* C13: when a rollback with create_pre_snapshot = true has succeeded, every
\* chapter entry of the target payload whose id names an existing chapter
\* has its title and content live in that chapter.
C13_RollbackRestoresPayload ==
    [][\A s \in Sessions :
         (RolledBack(s) /\ req[s].arg.create_snapshot) =>
            \A e \in TargetEntries(s) :
                UUID(e.id) \in DOMAIN chapters' =>
                    /\ chapters'[UUID(e.id)].content = e.content
                    /\ chapters'[UUID(e.id)].title = e.title]_vars

\* C14: a successful rollback adds exactly two version rows when
\* create_pre_snapshot is true, the pre-snapshot and the rollback version
\* it answers with, and exactly one, the rollback version, when it is
\* false, and then it answers with no pre-snapshot id; it adds no other row.
C14_RollbackAddsTwoOrOne ==
    [][\A s \in Sessions :
         RolledBack(s) =>
            LET added == versions' \ versions
                reply == req'[s].reply
                ids == IF req[s].arg.create_snapshot
                       THEN {reply.pre_snapshot_id[1], reply.new_version_number}
                       ELSE {reply.new_version_number}
            IN /\ versions \subseteq versions'
               /\ Cardinality(versions') = Cardinality(versions)
                     + (IF req[s].arg.create_snapshot THEN 2 ELSE 1)
               /\ ~req[s].arg.create_snapshot => reply.pre_snapshot_id = <<>>
               /\ Cardinality(ids) = Cardinality(added)
               /\ {v.version_number : v \in added} = ids
               /\ \A v \in added : v.change_type = "rollback"
                                    /\ v.project_id = req[s].project]_vars

\* a rollback with a pre-snapshot has succeeded in a project that had two
\* versions
C14_Witness ==
    \E s \in Sessions :
        /\ req[s].pc = "done" /\ req[s].op = "rollback"
        /\ req[s].result = "saved"
        /\ req[s].reply.pre_snapshot_id = <<3>>
        /\ req[s].reply.new_version_number = 4
        /\ Cardinality(versions) = 4

\* C15: when a rollback with create_pre_snapshot = true has succeeded,
\* comparing its pre-snapshot with the version that was the latest of the
\* project before it reports no change.
C15_PreSnapshotEqualsLatest ==
    [][\A s \in Sessions :
         (RolledBack(s) /\ req[s].arg.create_snapshot) =>
            LET pre == req[s].staged[1]
                latest == get_version(req[s].project, pre.version_number - 1)
            IN latest # <<>> =>
                 _compute_diff(pre.snapshot_data,
                               latest[1].snapshot_data).total_changes = 0]_vars

\* C16: a rollback changes only the title and the content of chapters: no
\* chapter is removed, every chapter keeps its status, locked_by,
\* locked_at, order_index, parent and chapter_number, and a chapter that no
\* entry of the target payload names is unchanged.
C16_RollbackTouchesTitleAndContentOnly ==
    [][\A s \in Sessions :
         RolledBack(s) =>
            /\ DOMAIN chapters' = DOMAIN chapters
            /\ \A c \in DOMAIN chapters :
                  /\ \A f \in Columns \ {"title", "content"} :
                        chapters'[c][f] = chapters[c][f]
                  /\ (\A e \in TargetEntries(s) : e.id # str(c))
                        => chapters'[c] = chapters[c]]_vars

\* a rollback has put back the content of a chapter that had been saved and
\* locked since the snapshot: the status and the lock are those of the save
C16_Witness ==
    \E s \in Sessions, c \in DOMAIN chapters :
        /\ req[s].pc = "done" /\ req[s].op = "rollback"
        /\ req[s].result = "saved"
        /\ str(c) \in req[s].reply.restored_chapters
        /\ chapters[c].content = Null
        /\ chapters[c].status = "generated"
        /\ chapters[c].locked_by # Null

\* C17: version rows are append-only: in every step every version row that
\* exists stays as it is, with its number, payload, change type, chapter
\* reference and creator; a rollback, a content write, a snapshot and the
\* deletion of chapters only add rows.
C17_VersionsAppendOnly ==
    [][versions \subseteq versions']_vars

\* C18: in every state the version numbers of each project are pairwise
\* distinct, at least 1, and exactly 1..k for the k rows of the project,
\* whether a content write, a manual snapshot, a rollback or a generation
\* of the outline or of content inserted them, and although transactions
\* that had taken a number ended without committing.
C18_NumbersDenseFromOne ==
    \A p \in Projects :
        LET numbers == {v.version_number : v \in VersionsOf(p)}
        IN /\ Cardinality(numbers) = Cardinality(VersionsOf(p))
           /\ \A n \in numbers : n >= 1
           /\ numbers = 1..Cardinality(VersionsOf(p))

\* the project has versions of a rollback and of a generation, a
\* transaction was refused its number by the unique constraint and a
\* generation ended without committing
C18_Witness ==
    /\ \E v \in versions : v.change_type = "rollback"
    /\ \E v \in versions : v.change_type = "ai_generate"
    /\ \E s \in Sessions : req[s].pc = "done"
                            /\ req[s].result = "IntegrityError"
    /\ \E s \in Sessions : req[s].pc = "done" /\ req[s].result = "discarded"

\* C21: a version comparison in which one of the two version ids names no
\* version of the project fails with NotFound, and the failure tells the
\* caller whether the first version was found and whether the second was.
C21_DiffNotFoundTellsWhich ==
    [][\A s \in Sessions, p \in Projects, id1, id2 \in 1..3 :
         (/\ diff_project_versions(s, creator_id[p], p, id1, id2)
          /\ (get_version(p, id1) = <<>> \/ get_version(p, id2) = <<>>)) =>
            /\ req'[s].result = "NotFound"
            /\ {"v1_found", "v2_found"} \subseteq DOMAIN req'[s].reply
            /\ req'[s].reply.v1_found = (get_version(p, id1) # <<>>)
            /\ req'[s].reply.v2_found = (get_version(p, id2) # <<>>)]_vars

\* the moves of the chapter workflow open to a caller who is not a global
\* administrator
WorkflowMoves ==
    {<<"pending", "generated">>, <<"generated", "reviewing">>,
     <<"reviewing", "finalized">>, <<"reviewing", "generated">>}

\* C22: no caller has the global administrator role here; whenever a step
\* changes the committed status of a chapter, the change is one of
\* pending -> generated -> reviewing -> finalized or reviewing -> generated,
\* so that the status of a finalized chapter never changes again.
C22_StatusFollowsWorkflow ==
    [][\A c \in DOMAIN chapters \cap DOMAIN chapters' :
         chapters'[c].status # chapters[c].status =>
            <<chapters[c].status, chapters'[c].status>> \in WorkflowMoves]_vars

\* C23: a rollback by an owner or editor of the project whose target id
\* names no version of the project answers NotFound, inserts no version row
\* and changes no chapter.
C23_MissingTargetIsNotFound ==
    [][\A s \in Sessions, u \in Users, p \in Projects, id \in 1..MaxVersions, b \in BOOLEAN :
         (/\ rollback_to_version(s, u, p, id, b)
          /\ require_editor(u)
          /\ verify_project_member(p, u) \in {"owner", "editor"}
          /\ get_version(p, id) = <<>>) =>
            /\ req'[s].result = "NotFound"
            /\ versions' = versions
            /\ chapters' = chapters]_vars

\* the chapter keys of a snapshot of the whole project
KeysOf(data) == {data.chapters[i].id : i \in DOMAIN data.chapters}

\* the entry of a snapshot of the whole project under a key
EntryOf(data, key) ==
    data.chapters[CHOOSE i \in DOMAIN data.chapters : data.chapters[i].id = key]

\* the payload of the version of project "P" with the given number
PayloadOf(n) ==
    (CHOOSE v \in versions : v.project_id = "P" /\ v.version_number = n).snapshot_data

\* C24: when two snapshots A and B of the whole project have been
\* compared, the changes are one per chapter key that differs and none for
\* the others: deleted for a key only in A, added for a key only in B,
\* modified for a key in both whose title or content differs, with
\* title_changed and content_changed telling which of the two differ; and
\* added + deleted + modified = total_changes = the number of changes.
C24_OneChangePerDifferingKey ==
    \A s \in Sessions :
        (/\ Compared(s)
         /\ "chapters" \in DOMAIN PayloadOf(req[s].reply.v1.version_number)
         /\ "chapters" \in DOMAIN PayloadOf(req[s].reply.v2.version_number)) =>
            LET A == PayloadOf(req[s].reply.v1.version_number)
                B == PayloadOf(req[s].reply.v2.version_number)
                diff == req[s].reply.diff
                both == {k \in KeysOf(A) \cap KeysOf(B) :
                            \/ EntryOf(A, k).title # EntryOf(B, k).title
                            \/ EntryOf(A, k).content # EntryOf(B, k).content}
            IN /\ Reported(s, "deleted") = KeysOf(A) \ KeysOf(B)
               /\ Reported(s, "added") = KeysOf(B) \ KeysOf(A)
               /\ Reported(s, "modified") = both
               /\ \A x, y \in diff.changes : x.chapter_id = y.chapter_id => x = y
               /\ \A x \in diff.changes :
                     x.type = "modified" =>
                        /\ x.title_changed
                             = (EntryOf(A, x.chapter_id).title
                                  # EntryOf(B, x.chapter_id).title)
                        /\ x.content_changed
                             = (EntryOf(A, x.chapter_id).content
                                  # EntryOf(B, x.chapter_id).content)
               /\ diff.added = Cardinality(Reported(s, "added"))
               /\ diff.deleted = Cardinality(Reported(s, "deleted"))
               /\ diff.modified = Cardinality(Reported(s, "modified"))
               /\ diff.added + diff.deleted + diff.modified = diff.total_changes
               /\ diff.total_changes = Cardinality(diff.changes)

\* two snapshots have been compared that differ by a deleted chapter and by
\* a chapter whose title alone changed
C24_Witness ==
    \E s \in Sessions :
        /\ Compared(s)
        /\ Reported(s, "deleted") # {}
        /\ \E x \in req[s].reply.diff.changes :
              x.type = "modified" /\ x.title_changed /\ ~x.content_changed

\* C25: a successful rollback adds one version with the number it answers
\* with; the payload of that version is the payload of the target, its
\* change type is rollback, it refers to no chapter, and its number is the
\* highest of the project once the rollback has committed. This is so too
\* when the rollback restored no chapter.
C25_RollbackVersionCarriesTarget ==
    [][\A s \in Sessions :
         RolledBack(s) =>
            LET n == req'[s].reply.new_version_number
                new == {v \in versions' \ versions :
                            v.project_id = req[s].project /\ v.version_number = n}
            IN /\ Cardinality(new) = 1
               /\ \A v \in new :
                     /\ v.snapshot_data = req[s].arg.target.snapshot_data
                     /\ v.change_type = "rollback"
                     /\ v.chapter_id = Null
               /\ \A w \in versions' :
                     w.project_id = req[s].project => w.version_number <= n]_vars

\* a rollback to the version of a chapter edit has succeeded: it restored
\* no chapter and its version is stored
C25_Witness ==
    \E s \in Sessions :
        /\ req[s].pc = "done" /\ req[s].op = "rollback"
        /\ req[s].result = "saved"
        /\ req[s].reply.restored_chapters = {}
        /\ \E v \in versions :
              /\ v.version_number = req[s].reply.new_version_number
              /\ v.change_type = "rollback"
              /\ "chapters" \notin DOMAIN v.snapshot_data

\* C26: when a rollback with create_pre_snapshot = true starts to overwrite
\* the chapters, its pre-snapshot is already created and no chapter has
\* been overwritten by it, and the pre-snapshot lists every chapter of the
\* project, each with the title and the content that are live at that
\* moment.
C26_PreSnapshotHoldsLiveState ==
    [][\A s \in Sessions :
         (rollback_restore(s) /\ req[s].arg.create_snapshot) =>
            LET pre == req[s].staged[1].snapshot_data
                entries == {pre.chapters[i] : i \in DOMAIN pre.chapters}
                live == {c \in DOMAIN chapters : ChapterProject[c] = req[s].project}
            IN /\ {e.id : e \in entries} = {str(c) : c \in live}
               /\ \A e \in entries : \A c \in live :
                     e.id = str(c) =>
                        /\ e.title = chapters[c].title
                        /\ e.content = chapters[c].content]_vars

\* the entries of the target payload that the restore loop of the rollback
\* of session s cannot resolve: no id, or an id that names no chapter
Unresolved(s) ==
    {e \in TargetEntries(s) :
        get(e, "id") = Null \/ UUID(e.id) \notin DOMAIN chapters}

\* C27: the restore loop of a rollback skips the entries of the target
\* payload that it cannot resolve and raises no error: the other entries
\* are restored and reported in restored_chapters, the skipped ones are not
\* reported, the rollback version is created and the call answers success.
C27_UnresolvedEntriesAreSkipped ==
    [][\A s \in Sessions :
         rollback_restore(s) =>
            LET reply == req'[s].reply
                staged == req'[s].staged
            IN /\ req'[s].pc = "staged"
               /\ Len(staged) = Len(req[s].staged) + 1
               /\ staged[Len(staged)].change_type = "rollback"
               /\ staged[Len(staged)].version_number = reply.new_version_number
               /\ \A e \in Unresolved(s) :
                     get(e, "id") \notin reply.restored_chapters
               /\ \A e \in TargetEntries(s) \ Unresolved(s) :
                     /\ e.id \in reply.restored_chapters
                     /\ req'[s].obj[UUID(e.id)].title = e.title
                     /\ req'[s].obj[UUID(e.id)].content = e.content]_vars

\* a rollback has succeeded whose target is a snapshot of a chapter that
\* was deleted since: it restored nothing and its version is stored
C27_Witness ==
    \E s \in Sessions :
        /\ req[s].pc = "done" /\ req[s].op = "rollback"
        /\ req[s].result = "saved"
        /\ req[s].reply.restored_chapters = {}
        /\ \E v \in versions :
              /\ v.version_number = req[s].reply.target_version_number
              /\ \E i \in DOMAIN chapters_of(v.snapshot_data) :
                    UUID(v.snapshot_data.chapters[i].id) \notin DOMAIN chapters
        /\ \E v \in versions :
              /\ v.version_number = req[s].reply.new_version_number
              /\ v.change_type = "rollback"

\* C28: a transaction that has inserted a version row holds the lock on the
\* row of the project until it ends, so that no two transactions in
\* progress have both inserted a version row of the same project.
C28_InsertsHoldProjectLock ==
    \A s, t \in Sessions :
        (/\ s # t
         /\ req[s].pc \in InFlight /\ req[t].pc \in InFlight
         /\ req[s].staged # <<>> /\ req[t].staged # <<>>) =>
            req[s].project # req[t].project

\* the row of chapter c as the restore loop of the rollback of session s
\* finds it: the object the session has loaded, or else the committed row
Found(s, c) == IF c \in DOMAIN req[s].obj THEN req[s].snap[c] ELSE chapters[c]

\* C29: a rollback does not look at chapter locks. When the restore loop
\* finds a chapter on which another user holds a lock that has not timed
\* out, it is not refused and sets the title and the content of the payload
\* entry; the rollback commits them and leaves locked_by and locked_at of
\* every chapter as they are; and a write of the holder of a live lock is
\* accepted, and once it has committed its content is the content of the
\* chapter, provided the chapter still has the content that the write read.
C29_RollbackIgnoresLocks ==
    [][/\ \A s \in Sessions :
            rollback_restore(s) =>
               \A e \in TargetEntries(s) \ Unresolved(s) :
                  LET c == UUID(e.id)
                      row == Found(s, c)
                  IN (row.locked_by \notin {Null, req[s].user}
                        /\ Live(row, now)) =>
                        /\ req'[s].pc = "staged"
                        /\ req'[s].obj[c].title = e.title
                        /\ req'[s].obj[c].content = e.content
                        /\ req'[s].obj[c].locked_by = row.locked_by
                        /\ req'[s].obj[c].locked_at = row.locked_at
       /\ \A s \in Sessions :
            RolledBack(s) =>
               \A c \in DOMAIN chapters :
                  /\ chapters'[c].locked_by = chapters[c].locked_by
                  /\ chapters'[c].locked_at = chapters[c].locked_at
                  /\ c \in DOMAIN req[s].obj =>
                        \A f \in {"title", "content"} \cap Dirty(req[s], c) :
                            chapters'[c][f] = req[s].obj[c][f]
       /\ \A t \in Sessions :
            (/\ update_chapter_content(t)
             /\ req[t].chapter \in DOMAIN req[t].snap \cap DOMAIN chapters
             /\ Read(t).locked_by = req[t].user
             /\ Live(Read(t), now)) =>
                /\ req'[t].pc = "flushed"
                /\ req'[t].obj[req[t].chapter].content = req[t].arg
       /\ \A t \in Sessions :
            (/\ req[t].op = "content" /\ req[t].pc = "staged"
             /\ req'[t].pc = "done" /\ req'[t].result = "saved"
             /\ Read(t).locked_by = req[t].user
             /\ Read(t).content = Stored(t).content) =>
                chapters'[req[t].chapter].content = req[t].arg]_vars

\* bob has rolled the project back to its first snapshot while alice held
\* the lock she took by saving the chapter, and alice, still the holder, has
\* then saved the chapter again over the rolled-back content
C29_Witness ==
    /\ now = 0
    /\ chapters["c1"].locked_by = "alice"
    /\ \E u, v, w \in versions :
          /\ u.chapter_id = "c1" /\ u.created_by = "alice"
          /\ u.snapshot_data.new_content # Null
          /\ v.change_type = "rollback" /\ v.created_by = "bob"
          /\ "chapters" \in DOMAIN v.snapshot_data
          /\ v.snapshot_data.chapters[1].content = Null
          /\ w.chapter_id = "c1" /\ w.created_by = "alice"
          /\ u.version_number < v.version_number
          /\ v.version_number < w.version_number
          /\ w.snapshot_data.old_content = Null
          /\ chapters["c1"].content = w.snapshot_data.new_content

\* C30: lock_chapter called by a user who is not a member of the project of
\* the chapter, or who is its reviewer, answers Forbidden and leaves
\* locked_by and locked_at of the chapter as they are, whether the chapter
\* is unlocked, locked with a live lock or locked with an expired one.
C30_LockRefusedForNonEditors ==
    [][\A s \in Sessions :
         (Answers(s, "lock") /\ Role(s) \in {Null, "reviewer"}) =>
            /\ req'[s].result = "Forbidden"
            /\ chapters'[req[s].chapter].locked_by = Stored(s).locked_by
            /\ chapters'[req[s].chapter].locked_at = Stored(s).locked_at]_vars

\* a reviewer of the project has been refused the lock of a chapter whose
\* lock, held by the other user, has expired
C30_Witness ==
    \E s \in Sessions, c \in Chapters :
        /\ req[s].pc = "done" /\ req[s].op = "lock"
        /\ req[s].result = "Forbidden"
        /\ project_members[ChapterProject[c]][req[s].user] = "reviewer"
        /\ chapters[c].locked_by \notin {Null, req[s].user}
        /\ ~Live(chapters[c], now)

\* C31: the lock of a chapter is reported expired exactly when the chapter
\* has no locked_at or more than LOCK_TIMEOUT_MINUTES have passed since
\* locked_at; at LOCK_TIMEOUT_MINUTES exactly, or less, it is reported live,
\* whoever is in locked_by and also when nobody is.
C31_ExpiredStrictlyAfterTimeout ==
    \A s \in Sessions :
        (req[s].pc = "done" /\ req[s].op = "expiry") =>
            LET ch == chapters[req[s].reply.chapter]
            IN req[s].reply.expired
                 = (\/ ch.locked_at = <<>>
                    \/ now - ch.locked_at[1] > 30)

\* the lock of a chapter has been reported live exactly 30 minutes after
\* its locked_at
C31_Witness ==
    \E s \in Sessions :
        /\ req[s].pc = "done" /\ req[s].op = "expiry"
        /\ chapters[req[s].reply.chapter].locked_at # <<>>
        /\ now - chapters[req[s].reply.chapter].locked_at[1] = 30
        /\ ~req[s].reply.expired

\* C32: unlock_chapter called by a global administrator who is a member of
\* the project, but neither its owner nor the holder of the lock, on a
\* chapter locked by another user answers with success and leaves
\* locked_by and locked_at both null.
C32_AdminReleasesForeignLock ==
    [][\A s \in Sessions :
         (/\ Answers(s, "unlock")
          /\ GlobalRole[req[s].user] = "admin"
          /\ Role(s) \in {"editor", "reviewer"}
          /\ Read(s).locked_by \notin {Null, req[s].user}) =>
            /\ req'[s].result = "unlocked"
            /\ chapters'[req[s].chapter].locked_by = Null
            /\ chapters'[req[s].chapter].locked_at = <<>>]_vars

\* the project roles that may move a chapter along each edge of the
\* workflow
EdgeRoles(from, to) ==
    IF <<from, to>> \in {<<"pending", "generated">>, <<"generated", "reviewing">>}
    THEN {"owner", "editor"}
    ELSE IF <<from, to>> \in {<<"reviewing", "finalized">>, <<"reviewing", "generated">>}
    THEN {"owner", "reviewer"}
    ELSE {}

\* C33: a status update by a member of the project is accepted exactly when
\* the caller is a global administrator, whatever the current and the
\* requested status, or the requested status follows the current one on an
\* edge of the workflow and the caller's project role is allowed on that
\* edge; a caller who is not an administrator can neither skip a status
\* nor leave finalized.
C33_TransitionAcceptedExactly ==
    [][\A s \in Sessions :
         (Answers(s, "status") /\ Role(s) # Null) =>
            LET from == Read(s).status
                to == req[s].arg
                admin == GlobalRole[req[s].user] = "admin"
            IN /\ (req'[s].result = "ok")
                    = (admin \/ Role(s) \in EdgeRoles(from, to))
               /\ req'[s].result \in {"ok", "Forbidden"}
               /\ (~admin /\ <<from, to>> = <<"pending", "reviewing">>)
                     => req'[s].result = "Forbidden"
               /\ (~admin /\ from = "finalized")
                     => req'[s].result = "Forbidden"]_vars

\* an administrator has moved a chapter from finalized back to pending
C33_Witness ==
    \E s \in Sessions :
        /\ req[s].pc = "done" /\ req[s].op = "status" /\ req[s].result = "ok"
        /\ GlobalRole[req[s].user] = "admin"
        /\ req[s].reply.old_status = "finalized"
        /\ req[s].reply.new_status = "pending"
        /\ chapters["c1"].status = "pending"

\* C34: a rollback that has started and ends with an error leaves every
\* chapter and the version rows as they were: none of its overwrites and
\* none of its version rows, the pre-snapshot included, is stored.
C34_FailedRollbackLeavesNothing ==
    [][\A s \in Sessions :
         (/\ req[s].op = "rollback" /\ req[s].pc \in InFlight
          /\ req'[s].pc = "done" /\ req'[s].result # "saved") =>
            /\ chapters' = chapters
            /\ versions' = versions]_vars

\* a rollback has ended with an error because a generation, which inserts
\* its version row without the lock of the project, had taken its number
C34_Witness ==
    \E s \in Sessions :
        /\ req[s].pc = "done" /\ req[s].op = "rollback"
        /\ req[s].result = "IntegrityError"
        /\ \E v \in versions : "outline" \in DOMAIN v.snapshot_data

\* C35: when a rollback with create_pre_snapshot = true has succeeded, the
\* number of its rollback version is the number of its pre-snapshot plus
\* one and both rows are stored, whatever versions other transactions
\* created for the project in the meantime.
C35_RollbackNumbersConsecutive ==
    [][\A s \in Sessions :
         (RolledBack(s) /\ req[s].arg.create_snapshot) =>
            LET pre == req'[s].reply.pre_snapshot_id[1]
                new == req'[s].reply.new_version_number
            IN /\ new = pre + 1
               /\ \A n \in {pre, new} :
                     \E v \in versions' \ versions :
                        v.project_id = req[s].project /\ v.version_number = n]_vars

\* a rollback with a pre-snapshot has succeeded while the transaction of
\* another request that creates a version of the project was in progress
C35_Witness ==
    \E s, t \in Sessions :
        /\ s # t
        /\ req[s].pc = "done" /\ req[s].op = "rollback"
        /\ req[s].result = "saved"
        /\ req[s].reply.pre_snapshot_id # <<>>
        /\ req[t].pc \in InFlight
        /\ req[t].op \in {"content", "generate", "snapshot", "outline"}

\* C36: when the lock that lock_chapter or unlock_chapter finds on the
\* chapter belongs to another user and has timed out, the call of an owner
\* or editor of the project is not refused: lock_chapter makes the caller
\* the holder and unlock_chapter answers with success, as on a chapter that
\* is not locked.
C36_ExpiredLockRefusesNobody ==
    [][\A s \in Sessions :
         (/\ Answers(s, "lock") \/ Answers(s, "unlock")
          /\ Eligible(s)
          /\ Read(s).locked_by \notin {Null, req[s].user}
          /\ ~Live(Read(s), now)) =>
            /\ req'[s].result \notin {"Forbidden", "Conflict"}
            /\ req[s].op = "lock" => req'[s].result = "locked"
            /\ req[s].op = "unlock" =>
                  req'[s].result \in {"unlocked", "not_locked"}]_vars

\* C37: when a rollback with a pre-snapshot S has succeeded and the next
\* rollback of the project, with no version created in between, has S as
\* its target and succeeds, every chapter has again the title and the
\* content it had at the moment the first rollback overwrote the chapters.
C37_RollbackToPreSnapshotUndoes ==
    [][\A s, t \in Sessions :
         (/\ s # t
          /\ RolledBack(t)
          /\ req[s].pc = "done" /\ req[s].op = "rollback"
          /\ req[s].result = "saved"
          /\ req[s].reply.pre_snapshot_id # <<>>
          /\ req[t].arg.target.version_number = req[s].reply.pre_snapshot_id[1]
          /\ req[t].staged[1].version_number
               = req[s].reply.new_version_number + 1) =>
            \A c \in DOMAIN req[s].before[1] :
                /\ c \in DOMAIN chapters'
                /\ chapters'[c].title = req[s].before[1][c].title
                /\ chapters'[c].content = req[s].before[1][c].content]_vars

\* C38: a rollback of one project never changes the title or the content of
\* a chapter of another project, whichever version the program has written
\* is its target: when the rollback commits, every chapter that belongs to
\* a project other than the one rolled back keeps its title and content.
C38_RollbackStaysInProject ==
    [][\A s \in Sessions :
         RolledBack(s) =>
             \A c \in DOMAIN chapters :
                 ChapterProject[c] # req[s].project =>
                     /\ c \in DOMAIN chapters'
                     /\ chapters'[c].title = chapters[c].title
                     /\ chapters'[c].content = chapters[c].content]_vars

\* a rollback of project P has restored its chapter, which had been saved
\* since, while project Q has a snapshot of its own and its chapter holds
\* a saved text
C38_Witness ==
    \E s \in Sessions :
        /\ req[s].pc = "done" /\ req[s].op = "rollback"
        /\ req[s].result = "saved"
        /\ req[s].reply.restored_chapters = {str("c1")}
        /\ \E v \in versions : v.project_id = "P" /\ v.chapter_id = "c1"
        /\ chapters["c1"].content \notin Contents
        /\ \E v \in versions :
              /\ v.project_id = "Q"
              /\ chapters_of(v.snapshot_data) # <<>>
        /\ chapters["q1"].content \in Contents
====
